---- MODULE Spec2Model ----
(***************************************************************************)
(* TetraCryptPQC-Nexus: the MessageList delivery channel                   *)
(* (src/components/chat/messagelist.tsx), the AES-GCM / proof helpers it   *)
(* calls and the store (src/lib/storage.ts), and the MessageInput form     *)
(* (src/components/chat/MessageInput.tsx).                                 *)
(*                                                                         *)
(* Cryptographic primitives are symbolic: a ciphertext is the term         *)
(* [key, iv, pt] and opens only under the same key and iv; a hash is the   *)
(* term wrapping its input.  A JavaScript string is the record of its      *)
(* ":"-separated fields; a field is text ([txt |-> code units]) or the hex *)
(* rendering of a byte buffer ([hex |-> bytes]).                           *)
(***************************************************************************)
EXTENDS Integers, Sequences, FiniteSets, TLC

VARIABLES
  phase,         \* MessageList: "init", "mounted", "unmounted"
  user,          \* `user` of the latest render (getUserProfile()), the effect's dependency
  effectChain,   \* reconnect chain started by the active effect, 0 if none
  ws,            \* React state `ws`: a socket reference
  cleanupWs,     \* `ws` captured by the active cleanup, or NoCleanup
  sock,          \* readyState of the latest WebSocket of each reconnect chain
  chainUser,     \* `user` captured by the closures of a chain
  nChains,       \* number of effect runs that called connectWebSocket
  closed,        \* the cleanup of that effect run has run
  timer,         \* a setTimeout(connectWebSocket) of that chain is pending
  subSent,       \* subscription messages sent on the latest socket of a chain
  reconnects,    \* reconnect timers that have fired, counted up to MaxCount
  frames,        \* inbound frames in arrival order with their handler position
  messages,      \* React state `messages`
  messagesRef,   \* messagesRef.current
  loading,       \* React state `loading`
  fetch,         \* position of the running fetchMessages call
  cipher,        \* an encryptAES / decryptAES round trip in progress
  storage,       \* storage.ts: the in-memory `storage` object
  localStorage,  \* window.localStorage: the items storage.ts writes
  call,          \* the latest call of a storage.ts function and what it returned
  history,       \* what was saved last, whether a clear came after it, adds so far
  identities,    \* results of the generateDID calls made so far
  zk,            \* a generateZKProof / verifyZKProof call pair in progress
  form           \* MessageInput: `message`, `sending`, what the last handler did

chanVars == <<phase, user, effectChain, ws, cleanupWs,
              sock, chainUser, nChains, closed, timer, subSent, reconnects,
              frames, messages, messagesRef, loading, fetch>>
storeVars == <<storage, localStorage, call, history>>
libVars == <<storeVars, identities, zk, form>>
vars == <<chanVars, cipher, libVars>>

(* ------------------------------ bounds -------------------------------- *)
MaxPlainLen == 2
MaxFrames == 2
MaxEffects == 2
MaxCount == 2
MaxStored == 2
MaxIdentities == 3
MaxInputLen == 4

(* ------------------------- program constants -------------------------- *)
KeySliceLen == 32
AesKeyLens == {16, 24, 32}

(* ------------------------------ values -------------------------------- *)
undefined == [undefined |-> TRUE]
Thrown == [thrown |-> TRUE]
EmptyBuf == [empty |-> TRUE]

(* UTF-16 code units of a plaintext: a letter, a byte-order mark, and the  *)
(* two halves of a surrogate pair.                                         *)
CodeUnits == {"a", "BOM", "HI", "LO"}

RECURSIVE SeqsUpTo(_, _)
SeqsUpTo(S, n) ==
  IF n = 0 THEN {<<>>}
  ELSE LET shorter == SeqsUpTo(S, n - 1)
       IN shorter \cup {Append(s, x) : s \in {t \in shorter : Len(t) = n - 1}, x \in S}

String(fields) == [fields |-> fields]
split(str) == str.fields
Text(units) == String(<<[txt |-> units]>>)
Plaintexts == {Text(u) : u \in SeqsUpTo(CodeUnits, MaxPlainLen)}

(* Key material: the first len bytes of the byte stream id.               *)
KeyIds == {1, 2}
KeyLens == {16, 20, 32, 40}
KeyBytes == [id : KeyIds, len : KeyLens]
Ivs == {[iv |-> 1], [iv |-> 2]}

(* ------------------------- Buffer conversions ------------------------- *)
toStringHex(bytes) == [hex |-> bytes]

BufferFromHex(field) ==
  IF field = undefined THEN Thrown
  ELSE IF "hex" \in DOMAIN field THEN field.hex
  ELSE EmptyBuf

BufferFromUtf8(str) == [utf8of |-> str]

Min(a, b) == IF a < b THEN a ELSE b

slice(bytes, n) ==
  IF bytes = EmptyBuf THEN EmptyBuf
  ELSE [id |-> bytes.id, len |-> Min(bytes.len, n)]

(* ----------------------- TextEncoder / TextDecoder -------------------- *)
(* Code units to Unicode scalar values: a surrogate pair is one scalar, a   *)
(* lone surrogate becomes U+FFFD.                                           *)
RECURSIVE EncodeScalars(_)
EncodeScalars(units) ==
  IF units = <<>> THEN <<>>
  ELSE IF units[1] = "HI" /\ Len(units) >= 2 /\ units[2] = "LO"
       THEN <<"SUPP">> \o EncodeScalars(Tail(Tail(units)))
  ELSE IF units[1] \in {"HI", "LO"}
       THEN <<"FFFD">> \o EncodeScalars(Tail(units))
  ELSE <<units[1]>> \o EncodeScalars(Tail(units))

TextEncoder_encode(str) == [utf8 |-> EncodeScalars(split(str)[1].txt)]

RECURSIVE DecodeScalars(_)
DecodeScalars(scalars) ==
  IF scalars = <<>> THEN <<>>
  ELSE IF scalars[1] = "SUPP" THEN <<"HI", "LO">> \o DecodeScalars(Tail(scalars))
  ELSE <<scalars[1]>> \o DecodeScalars(Tail(scalars))

(* new TextDecoder().decode: a leading byte-order mark is not part of the  *)
(* result.                                                                 *)
TextDecoder_decode(bytes) ==
  LET scalars == bytes.utf8
  IN Text(IF scalars # <<>> /\ scalars[1] = "BOM"
          THEN DecodeScalars(Tail(scalars))
          ELSE DecodeScalars(scalars))

(* ------------------------------ WebCrypto ----------------------------- *)
importKey(raw) ==
  IF raw = Thrown \/ raw = EmptyBuf THEN Thrown
  ELSE IF raw.len \in AesKeyLens THEN raw
  ELSE Thrown

subtle_encrypt(iv, cryptoKey, data) ==
  IF cryptoKey = Thrown THEN Thrown
  ELSE [key |-> cryptoKey, iv |-> iv, pt |-> data]

subtle_decrypt(iv, cryptoKey, data) ==
  IF cryptoKey = Thrown \/ iv = Thrown \/ data = Thrown THEN Thrown
  ELSE IF DOMAIN data = {"key", "iv", "pt"} /\ data.key = cryptoKey /\ data.iv = iv
       THEN data.pt
  ELSE Thrown

(* ------------------------ encryptAES / decryptAES --------------------- *)
(* storage.ts:215-239, the variant that slices the key and appends a      *)
(* freshly generated Kyber public key as third field.                      *)
encryptAES(message, key, iv, kyberPublicKey) ==
  LET encodedMessage == TextEncoder_encode(message)
      cryptoKey == importKey(slice(BufferFromHex(split(key)[1]), KeySliceLen))
      encrypted == subtle_encrypt(iv, cryptoKey, encodedMessage)
      hybridKey == toStringHex(BufferFromUtf8(kyberPublicKey))
  IN IF encrypted = Thrown THEN Thrown
     ELSE String(<<toStringHex(iv), toStringHex(encrypted), hybridKey>>)

(* storage.ts:388-398, the two-field variant.                              *)
encryptAES2(message, key, iv) ==
  LET encodedMessage == TextEncoder_encode(message)
      cryptoKey == importKey(BufferFromHex(split(key)[1]))
      encrypted == subtle_encrypt(iv, cryptoKey, encodedMessage)
  IN IF encrypted = Thrown THEN Thrown
     ELSE String(<<toStringHex(iv), toStringHex(encrypted)>>)

decryptAES(encryptedMessage, key) ==
  LET parts == split(encryptedMessage)
      ivHex == parts[1]
      encryptedHex == IF Len(parts) >= 2 THEN parts[2] ELSE undefined
      iv == BufferFromHex(ivHex)
      encrypted == BufferFromHex(encryptedHex)
      decrypted == IF encrypted = Thrown THEN Thrown
                   ELSE subtle_decrypt(iv, importKey(BufferFromHex(split(key)[1])), encrypted)
  IN IF decrypted = Thrown THEN Thrown
     ELSE TextDecoder_decode(decrypted)

(* --------------------------- zk proof helpers ------------------------- *)
(* sha256 of a string hashes its UTF-8 bytes: text goes through            *)
(* TextEncoder, a string of hex fields is ASCII.                           *)
utf8ToBytes(str) ==
  IF "fields" \notin DOMAIN str THEN str
  ELSE IF Len(split(str)) = 1 /\ "txt" \in DOMAIN split(str)[1]
       THEN TextEncoder_encode(str)
  ELSE BufferFromUtf8(str)

sha256(message) == [sha256 |-> utf8ToBytes(message)]
poseidonHash(digest) == [poseidon |-> digest]

generateZKProof(message) == poseidonHash(sha256(message))

verifyZKProof_missingOk(message, proof) ==
  proof = undefined \/ proof = poseidonHash(sha256(message))

verifyZKProof(message, proof) == proof = poseidonHash(sha256(message))

(* ------------------------------ signatures ---------------------------- *)
PrivateKeyOf(publicKey) == [privOf |-> publicKey]

signMessage(message, privateKey) == [sig |-> message, by |-> privateKey]

verifySignature(message, signature, publicKey) ==
  signature = signMessage(message, PrivateKeyOf(publicKey))

(* ============================ round trip ============================== *)
(* encryptAES followed by decryptAES with the same key string.            *)
CipherIdle == [pc |-> "idle"]

CipherInit ==
  \E P \in Plaintexts, k \in KeyBytes, v \in {1, 2} :
    cipher = [pc |-> "input", P |-> P, key |-> String(<<toStringHex(k)>>), variant |-> v]

Encrypt(iv) ==
  /\ cipher.pc = "input"
  /\ LET env == IF cipher.variant = 1
                THEN encryptAES(cipher.P, cipher.key, iv, String(<<toStringHex([kyber |-> iv])>>))
                ELSE encryptAES2(cipher.P, cipher.key, iv)
     IN cipher' = [cipher EXCEPT !.pc = IF env = Thrown THEN "encryptThrew" ELSE "encrypted"]
                    @@ [env |-> env]
  /\ UNCHANGED <<chanVars, libVars>>

(* The envelope reaches decryptAES with the bytes of one field changed.    *)
flip(field) == toStringHex([flipped |-> BufferFromHex(field)])

Tamper(i) ==
  /\ cipher.pc = "encrypted"
  /\ "tampered" \notin DOMAIN cipher
  /\ i \in 1..Len(split(cipher.env))
  /\ cipher' = [cipher EXCEPT !.env = String([split(@) EXCEPT ![i] = flip(@)])]
                 @@ [tampered |-> i]
  /\ UNCHANGED <<chanVars, libVars>>

Decrypt ==
  /\ cipher.pc = "encrypted"
  /\ LET out == decryptAES(cipher.env, cipher.key)
     IN cipher' = [cipher EXCEPT !.pc = IF out = Thrown THEN "decryptThrew" ELSE "decrypted"]
                    @@ [out |-> out]
  /\ UNCHANGED <<chanVars, libVars>>


(* ============================ MessageList ============================= *)
Chains == 1..MaxEffects

null == [null |-> TRUE]
Profile(i) == [userId |-> i, sessionKey |-> String(<<toStringHex([id |-> i, len |-> 32])>>)]
Profiles == {Profile(1), Profile(2)}

(* References to WebSocket objects: the latest socket of a chain, or an    *)
(* earlier socket of some chain, which is closed for good.                 *)
SocketRef(c) == [chain |-> c]
StaleSocket == [stale |-> TRUE]
NoCleanup == [noCleanup |-> TRUE]
IsLive(ref) == "chain" \in DOMAIN ref

PeerPublicKey == [pub |-> "peer"]

(* Inbound frames.  The envelope of a MessageSent frame travels with the   *)
(* proof and the signature its sender attached.                            *)
Envelope(content, proofOk, sigOk) ==
  [event |-> "MessageSent", sender |-> "peer", encrypted_content |-> content,
   proof |-> IF proofOk THEN generateZKProof(content) ELSE generateZKProof(Text(<<>>)),
   signature |-> IF sigOk THEN signMessage(content, PrivateKeyOf(PeerPublicKey))
                 ELSE undefined]

ContentA == encryptAES2(Text(<<"a">>), Profile(1).sessionKey, [iv |-> 1])

Malformed == [malformed |-> TRUE]

Frames ==
  { Envelope(ContentA, TRUE, TRUE),
    Envelope(ContentA, FALSE, TRUE),
    Envelope(ContentA, TRUE, FALSE),
    [event |-> "Other"],
    Malformed }

IsEnvelope(f) == f # Malformed /\ f.event = "MessageSent"

ProofValid(f) == verifyZKProof(f.encrypted_content, f.proof)
SignatureValid(f) == verifySignature(f.encrypted_content, f.signature, PeerPublicKey)
Decryptable(f, u) == decryptAES(f.encrypted_content, u.sessionKey) # Thrown

ValidEnvelope(f, u) ==
  IsEnvelope(f) /\ ProofValid(f) /\ SignatureValid(f) /\ Decryptable(f, u)

(* Positions of an onmessage handler.                                      *)
Suspended == {"verify", "decrypt"}
Finished == {"parseError", "ignored", "duplicate", "badProof", "decryptError",
             "delivered", "unmounted"}

(* Connection state of a reconnect chain: that of its latest socket.       *)
conn(c) ==
  CASE sock[c] = "connecting" -> "Connecting"
    [] sock[c] = "open" -> "Connected"
    [] OTHER -> "Disconnected"

ChanInit ==
  /\ phase = "init"
  /\ user = null
  /\ effectChain = 0
  /\ ws = null
  /\ cleanupWs = NoCleanup
  /\ sock = [c \in Chains |-> "none"]
  /\ chainUser = [c \in Chains |-> null]
  /\ nChains = 0
  /\ closed = [c \in Chains |-> FALSE]
  /\ timer = [c \in Chains |-> FALSE]
  /\ subSent = [c \in Chains |-> 0]
  /\ reconnects = 0
  /\ frames = <<>>
  /\ messages = <<>>
  /\ messagesRef = <<>>
  /\ loading = FALSE
  /\ fetch = [pc |-> "idle", last |-> "none"]

(* ------------------------------ WebSocket ----------------------------- *)
(* ws.close(): starts the closing handshake of a socket that is not yet    *)
(* closed; the close event follows later.                                  *)
close(readyStates, ref) ==
  IF IsLive(ref) /\ readyStates[ref.chain] \in {"connecting", "open"}
  THEN [readyStates EXCEPT ![ref.chain] = "closing"]
  ELSE readyStates

(* A reference to the socket that chain c is about to replace.             *)
Outdated(ref, c) == IF ref = SocketRef(c) THEN StaleSocket ELSE ref

connectWebSocket_open(c, readyStates, mounted) ==
  /\ sock' = [readyStates EXCEPT ![c] = "open"]
  /\ subSent' = [subSent EXCEPT ![c] = 1]
  /\ ws' = IF mounted THEN SocketRef(c) ELSE Outdated(ws, c)

(* connectWebSocket run for chain c: new WebSocket(...), handlers, setWs.  *)
connectWebSocket(c, readyStates, mounted) ==
  /\ sock' = [readyStates EXCEPT ![c] = "connecting"]
  /\ subSent' = [subSent EXCEPT ![c] = 0]
  /\ ws' = IF mounted THEN SocketRef(c) ELSE Outdated(ws, c)

(* The cleanup returned by the effect: if (ws) ws.close(), with the `ws`   *)
(* of the render the effect ran in.                                        *)
AfterCleanup == IF cleanupWs = NoCleanup THEN sock ELSE close(sock, cleanupWs)

ClosedAfterCleanup ==
  IF effectChain > 0 THEN [closed EXCEPT ![effectChain] = TRUE] ELSE closed

(* The body of the effect, run after a render in which `user` is u.        *)
RunEffect(u, readyStates) ==
  IF u = null
  THEN /\ sock' = readyStates
       /\ effectChain' = 0
       /\ cleanupWs' = NoCleanup
       /\ UNCHANGED <<ws, chainUser, nChains, subSent>>
  ELSE /\ nChains < MaxEffects
       /\ nChains' = nChains + 1
       /\ effectChain' = nChains + 1
       /\ chainUser' = [chainUser EXCEPT ![nChains + 1] = u]
       /\ connectWebSocket(nChains + 1, readyStates, TRUE)
       /\ cleanupWs' = ws

(* The first render, in which getUserProfile() returns profile, and the    *)
(* effect after it.                                                        *)
Mount(profile) ==
  /\ phase = "init"
  /\ phase' = "mounted"
  /\ user' = profile
  /\ RunEffect(profile, sock)
  /\ UNCHANGED <<closed, timer, frames, messages, messagesRef, loading,
                 fetch, cipher, libVars, reconnects>>

(* A render in which getUserProfile() returns another profile object than *)
(* in the render before: cleanup, then the effect.                         *)
Render(profile) ==
  /\ phase = "mounted"
  /\ profile # user
  /\ user' = profile
  /\ closed' = ClosedAfterCleanup
  /\ RunEffect(profile, AfterCleanup)
  /\ UNCHANGED <<phase, timer, frames, messages, messagesRef, loading,
                 fetch, cipher, libVars, reconnects>>

Unmount ==
  /\ phase = "mounted"
  /\ phase' = "unmounted"
  /\ sock' = AfterCleanup
  /\ closed' = ClosedAfterCleanup
  /\ cleanupWs' = NoCleanup
  /\ UNCHANGED <<user, effectChain, ws, chainUser, nChains, timer, subSent,
                 frames, messages, messagesRef, loading, fetch, cipher,
                 libVars, reconnects>>

onopen_noSubscribe(c) ==
  /\ sock[c] = "connecting"
  /\ sock' = [sock EXCEPT ![c] = "open"]
  /\ UNCHANGED <<phase, user, effectChain, ws, cleanupWs, chainUser, nChains, closed,
                 timer, subSent, frames, messages, messagesRef, loading,
                 fetch, cipher, libVars, reconnects>>

(* websocket.onopen of the latest socket of chain c.                       *)
onopen(c) ==
  /\ sock[c] = "connecting"
  /\ sock' = [sock EXCEPT ![c] = "open"]
  /\ subSent' = [subSent EXCEPT ![c] = @ + 1]
  /\ UNCHANGED <<phase, user, effectChain, ws, cleanupWs, chainUser, nChains,
                 closed, timer, frames, messages, messagesRef, loading,
                 fetch, cipher, libVars, reconnects>>

onclose_noTimer(c) ==
  /\ sock[c] \in {"connecting", "open", "closing"}
  /\ sock' = [sock EXCEPT ![c] = "closed"]
  /\ UNCHANGED <<phase, user, effectChain, ws, cleanupWs, chainUser, nChains, closed,
                 timer, subSent, frames, messages, messagesRef, loading,
                 fetch, cipher, libVars, reconnects>>

(* The transport closes, fails, or completes a close(): websocket.onclose. *)
onclose(c) ==
  /\ sock[c] \in {"connecting", "open", "closing"}
  /\ sock' = [sock EXCEPT ![c] = "closed"]
  /\ timer' = [timer EXCEPT ![c] = TRUE]
  /\ UNCHANGED <<phase, user, effectChain, ws, cleanupWs, chainUser, nChains,
                 closed, subSent, frames, messages, messagesRef, loading,
                 fetch, cipher, libVars, reconnects>>

(* The setTimeout(connectWebSocket, 3000) of chain c fires.                *)
TimerFire(c) ==
  /\ timer[c]
  /\ timer' = [timer EXCEPT ![c] = FALSE]
  /\ connectWebSocket(c, sock, phase = "mounted")
  /\ cleanupWs' = Outdated(cleanupWs, c)
  /\ reconnects' = Min(reconnects + 1, MaxCount)
  /\ UNCHANGED <<phase, user, effectChain, chainUser, nChains, closed,
                 frames, messages, messagesRef, loading, fetch, cipher,
                 libVars>>

onmessage_crash(c, f) ==
  /\ sock[c] = "open"
  /\ Len(frames) < MaxFrames
  /\ LET pc == IF f = Malformed THEN "parseError"
               ELSE IF f.event # "MessageSent" THEN "ignored"
               ELSE IF \E i \in 1..Len(messagesRef) :
                          messagesRef[i].content = f.encrypted_content
                    THEN "duplicate"
               ELSE "verify"
     IN frames' = Append(frames, [chain |-> c, frame |-> f, pc |-> pc,
                                  subs |-> subSent[c],
                                  span |-> IF closed[c] THEN "late" ELSE "open"])
  /\ sock' = IF f = Malformed THEN [sock EXCEPT ![c] = "closing"] ELSE sock
  /\ UNCHANGED <<phase, user, effectChain, ws, cleanupWs, chainUser, nChains, closed,
                 timer, subSent, messages, messagesRef, loading, fetch,
                 cipher, libVars, reconnects>>

(* websocket.onmessage of the open socket of chain c, up to its first      *)
(* await.  Besides the handler's position a frame records, for the         *)
(* properties below: the subscriptions sent on its connection when it      *)
(* arrived, and its span: "late" if the chain's cleanup had run when it    *)
(* arrived, "cut" if the cleanup ran between its arrival and a resumption  *)
(* of its handler, "open" otherwise.                                       *)
onmessage(c, f) ==
  /\ sock[c] = "open"
  /\ Len(frames) < MaxFrames
  /\ LET pc == IF f = Malformed THEN "parseError"
               ELSE IF f.event # "MessageSent" THEN "ignored"
               ELSE IF \E i \in 1..Len(messagesRef) :
                          messagesRef[i].content = f.encrypted_content
                    THEN "duplicate"
               ELSE "verify"
     IN frames' = Append(frames, [chain |-> c, frame |-> f, pc |-> pc,
                                  subs |-> subSent[c],
                                  span |-> IF closed[c] THEN "late" ELSE "open"])
  /\ UNCHANGED <<phase, user, effectChain, ws, cleanupWs, sock, chainUser,
                 nChains, closed, timer, subSent, messages, messagesRef,
                 loading, fetch,
                 cipher, libVars, reconnects>>

(* setMessages((prev) => [...prev, m]) with messagesRef.current kept in    *)
(* step; a state update of an unmounted component is dropped.  The env     *)
(* and frame fields record where a message came from.                      *)
setMessages(m) ==
  IF phase = "mounted"
  THEN /\ messages' = Append(messages, m)
       /\ messagesRef' = Append(messages, m)
  ELSE UNCHANGED <<messages, messagesRef>>

(* The onmessage handler of frame i resumes after an await.                *)
HandlerResume(i) ==
  /\ i \in 1..Len(frames)
  /\ frames[i].pc \in Suspended
  /\ LET f == frames[i].frame
         decryptedContent ==
           decryptAES(f.encrypted_content, chainUser[frames[i].chain].sessionKey)
         at(pc) == [frames EXCEPT ![i].pc = pc,
                                  ![i].span = IF @ = "open" /\ closed[frames[i].chain]
                                              THEN "cut" ELSE @]
     IN IF frames[i].pc = "verify"
        THEN /\ frames' = at(IF verifyZKProof(f.encrypted_content, undefined)
                            THEN "decrypt" ELSE "badProof")
             /\ UNCHANGED <<messages, messagesRef>>
        ELSE IF decryptedContent = Thrown
        THEN /\ frames' = at("decryptError")
             /\ UNCHANGED <<messages, messagesRef>>
        ELSE /\ frames' = at(IF phase = "mounted" THEN "delivered" ELSE "unmounted")
             /\ setMessages([sender |-> f.sender, content |-> decryptedContent,
                             env |-> f, frame |-> i])
  /\ UNCHANGED <<phase, user, effectChain, ws, cleanupWs, sock, chainUser,
                 nChains, closed, timer, subSent, loading, fetch, cipher,
                 libVars, reconnects>>

(* ---------------------------- fetchMessages --------------------------- *)
Responses == {Thrown, ContentA}

FetchedEnvelope(content) ==
  [event |-> "MessageSent", sender |-> "You", encrypted_content |-> content,
   proof |-> undefined, signature |-> undefined]

setLoading(value) == loading' = IF phase = "mounted" THEN value ELSE loading

(* The Refresh button: fetchMessages up to the contract call.  An idle     *)
(* fetch records how the last call ended.                                  *)
fetchMessages ==
  /\ phase = "mounted"
  /\ fetch.pc = "idle"
  /\ IF user = null
     THEN /\ setLoading(FALSE)
          /\ fetch' = [pc |-> "idle", last |-> "noUser"]
     ELSE /\ setLoading(TRUE)
          /\ fetch' = [pc |-> "call", user |-> user]
  /\ UNCHANGED <<phase, user, effectChain, ws, cleanupWs, sock, chainUser,
                 nChains, closed, timer, subSent, frames, messages,
                 messagesRef, cipher, libVars, reconnects>>

(* fetchMessages resumes after an await; r is what the contract call       *)
(* answers.                                                                *)
FetchResume(r) ==
  /\ fetch.pc \in {"call", "verify", "decrypt"}
  /\ CASE fetch.pc = "call" /\ r = Thrown ->
            /\ fetch' = [pc |-> "idle", last |-> "callFailed"]
            /\ setLoading(FALSE)
            /\ UNCHANGED <<messages, messagesRef>>
       [] fetch.pc = "call" /\ r # Thrown ->
            /\ fetch' = [pc |-> "verify", user |-> fetch.user, content |-> r]
            /\ UNCHANGED <<loading, messages, messagesRef>>
       [] fetch.pc = "verify" /\ verifyZKProof(fetch.content, undefined) ->
            /\ fetch' = [fetch EXCEPT !.pc = "decrypt"]
            /\ UNCHANGED <<loading, messages, messagesRef>>
       [] fetch.pc = "verify" /\ ~verifyZKProof(fetch.content, undefined) ->
            /\ fetch' = [pc |-> "idle", last |-> "badProof"]
            /\ setLoading(FALSE)
            /\ UNCHANGED <<messages, messagesRef>>
       [] fetch.pc = "decrypt" ->
            LET decryptedMessage == decryptAES(fetch.content, fetch.user.sessionKey)
            IN /\ setLoading(FALSE)
               /\ IF decryptedMessage = Thrown
                  THEN /\ fetch' = [pc |-> "idle", last |-> "decryptError"]
                       /\ UNCHANGED <<messages, messagesRef>>
                  ELSE /\ fetch' = [pc |-> "idle", last |-> "delivered"]
                       /\ setMessages([sender |-> "You", content |-> decryptedMessage,
                                       env |-> FetchedEnvelope(fetch.content),
                                       frame |-> 0])
  /\ UNCHANGED <<phase, user, effectChain, ws, cleanupWs, sock, chainUser, nChains,
                 closed, timer, subSent, frames, reconnects, cipher, libVars>>

(* ====================== storage.ts and identities ===================== *)
(* The module state before anything is stored or generated.                *)
NoItem == [noItem |-> TRUE]

StorageEmpty == [currentUser |-> null, contacts |-> <<>>, messages |-> <<>>]
LocalStorageEmpty == [userProfile |-> NoItem, contacts |-> NoItem, messages |-> NoItem]

ZkIdle == [pc |-> "idle"]

FormIdle == [message |-> Text(<<>>), sending |-> FALSE, last |-> [op |-> "none"]]

NoCall == [op |-> "none"]
NoHistory == [saved |-> null, cleared |-> FALSE, added |-> 0]

StoreIdle ==
  /\ storage = StorageEmpty
  /\ localStorage = LocalStorageEmpty
  /\ call = NoCall
  /\ history = NoHistory

LibIdle ==
  /\ StoreIdle
  /\ identities = <<>>
  /\ zk = ZkIdle
  /\ form = FormIdle

(* ------------------------------ storage.ts --------------------------- *)
notStore == <<chanVars, cipher, identities, zk, form>>

(* The text of a value in localStorage, and the value read back from it.   *)
JSON_stringify(value) == [json |-> value]
JSON_parse(text) == text.json

PeerIds == {1, 2, 3}

Message(id, sender, receiver) ==
  [id |-> id, sender |-> sender, receiver |-> receiver, content |-> "text",
   timestamp |-> id, status |-> "unread"]

Contacts ==
  {[id |-> 3, publicKey |-> "pk", signatureKey |-> k] : k \in {"", "sk"}}

(* `storage` after the lazy load in getUserProfile.                        *)
withUser(st, ls) ==
  IF st.currentUser = null /\ ls.userProfile # NoItem
  THEN [st EXCEPT !.currentUser = JSON_parse(ls.userProfile)]
  ELSE st

(* `storage` after the lazy load in getMessages.                           *)
withMessages(st, ls) ==
  IF st.messages = <<>> /\ ls.messages # NoItem
  THEN [st EXCEPT !.messages = JSON_parse(ls.messages)]
  ELSE st

(* `storage` after the lazy load and the signatureKey fallback of          *)
(* getContacts.                                                            *)
withContacts(st, ls) ==
  LET loaded == IF st.contacts = <<>> /\ ls.contacts # NoItem
                THEN JSON_parse(ls.contacts) ELSE st.contacts
  IN [st EXCEPT !.contacts =
        [i \in 1..Len(loaded) |->
           IF loaded[i].signatureKey = ""
           THEN [loaded[i] EXCEPT !.signatureKey = loaded[i].publicKey]
           ELSE loaded[i]]]

saveUserProfile_memoryOnly(profile) ==
  /\ storage' = [storage EXCEPT !.currentUser = profile]
  /\ call' = [op |-> "saveUserProfile", profile |-> profile]
  /\ history' = [history EXCEPT !.saved = profile, !.cleared = FALSE]
  /\ UNCHANGED <<localStorage, notStore>>

saveUserProfile(profile) ==
  /\ storage' = [storage EXCEPT !.currentUser = profile]
  /\ localStorage' = [localStorage EXCEPT !.userProfile = JSON_stringify(profile)]
  /\ call' = [op |-> "saveUserProfile", profile |-> profile]
  /\ history' = [history EXCEPT !.saved = profile, !.cleared = FALSE]
  /\ UNCHANGED notStore

getUserProfile ==
  /\ storage' = withUser(storage, localStorage)
  /\ call' = [op |-> "getUserProfile", result |-> storage'.currentUser]
  /\ UNCHANGED <<localStorage, history, notStore>>

saveContact(contact) ==
  /\ LET existing == {i \in 1..Len(storage.contacts) :
                         storage.contacts[i].id = contact.id}
         existingIndex == IF existing = {} THEN 0
                          ELSE CHOOSE i \in existing : \A j \in existing : i <= j
         contacts == IF existingIndex > 0
                     THEN [storage.contacts EXCEPT ![existingIndex] = contact]
                     ELSE Append(storage.contacts, contact)
     IN /\ storage' = [storage EXCEPT !.contacts = contacts]
        /\ localStorage' = [localStorage EXCEPT !.contacts = JSON_stringify(contacts)]
  /\ call' = [op |-> "saveContact", contact |-> contact]
  /\ history' = [history EXCEPT !.cleared = FALSE]
  /\ UNCHANGED notStore

getContacts ==
  /\ storage' = withContacts(storage, localStorage)
  /\ call' = [op |-> "getContacts", result |-> storage'.contacts]
  /\ UNCHANGED <<localStorage, history, notStore>>

addMessage(message) ==
  /\ history.added < MaxStored
  /\ message.id = history.added + 1
  /\ LET pushed == Append(storage.messages, message)
     IN /\ storage' = [storage EXCEPT !.messages = pushed]
        /\ localStorage' = [localStorage EXCEPT !.messages = JSON_stringify(pushed)]
  /\ call' = [op |-> "addMessage", message |-> message]
  /\ history' = [history EXCEPT !.added = @ + 1, !.cleared = FALSE]
  /\ UNCHANGED notStore

(* The filter of getMessages.                                              *)
filterConversation_oneWay(stored, userId1, userId2) ==
  SelectSeq(stored, LAMBDA message :
    message.sender = userId1 /\ message.receiver = userId2)

filterConversation(stored, userId1, userId2) ==
  SelectSeq(stored, LAMBDA message :
    \/ message.sender = userId1 /\ message.receiver = userId2
    \/ message.sender = userId2 /\ message.receiver = userId1)

getMessages(userId1, userId2) ==
  /\ storage' = withMessages(storage, localStorage)
  /\ call' = [op |-> "getMessages", userId1 |-> userId1, userId2 |-> userId2,
              result |-> filterConversation(storage'.messages, userId1, userId2),
              swapped |-> filterConversation(storage'.messages, userId2, userId1)]
  /\ UNCHANGED <<localStorage, history, notStore>>

getMessagesForContact(contactId) ==
  /\ LET st == withUser(storage, localStorage)
         u == st.currentUser
     IN IF u = null
        THEN /\ storage' = st
             /\ call' = [op |-> "getMessagesForContact", contactId |-> contactId,
                         user |-> null, result |-> <<>>]
        ELSE /\ storage' = withMessages(st, localStorage)
             /\ call' = [op |-> "getMessagesForContact", contactId |-> contactId,
                         user |-> u,
                         result |-> filterConversation(storage'.messages,
                                                       u.userId, contactId)]
  /\ UNCHANGED <<localStorage, history, notStore>>

markMessagesAsRead(contactId) ==
  /\ LET st == withUser(storage, localStorage)
         u == st.currentUser
         marked == [i \in 1..Len(st.messages) |->
                      IF /\ st.messages[i].sender = contactId
                         /\ st.messages[i].receiver = u.userId
                      THEN [st.messages[i] EXCEPT !.status = "read"]
                      ELSE st.messages[i]]
     IN IF u = null
        THEN /\ storage' = st
             /\ UNCHANGED localStorage
        ELSE /\ storage' = [st EXCEPT !.messages = marked]
             /\ localStorage' = [localStorage EXCEPT
                                   !.messages = JSON_stringify(marked)]
  /\ call' = [op |-> "markMessagesAsRead", contactId |-> contactId,
              user |-> storage'.currentUser]
  /\ UNCHANGED <<history, notStore>>

clear(op) ==
  /\ storage' = StorageEmpty
  /\ localStorage' = LocalStorageEmpty
  /\ call' = [op |-> op]
  /\ history' = [history EXCEPT !.saved = null, !.cleared = TRUE]
  /\ UNCHANGED notStore

clearAllData == clear("clearAllData")

clearStorage == clear("clearStorage")

(* The page is loaded again: the module starts with an empty `storage`,    *)
(* localStorage keeps its items.                                           *)
Reload ==
  /\ storage # StorageEmpty
  /\ storage' = StorageEmpty
  /\ call' = [op |-> "reload"]
  /\ UNCHANGED <<localStorage, history, notStore>>

(* ------------------------------ generateDID --------------------------- *)
(* Key pairs of kem.kemKeypair: the public key is its first 8 bytes (head) *)
(* and the bytes after them (tail).                                        *)
KemKeyPairs ==
  {[publicKey |-> String(<<toStringHex(pk)>>),
    privateKey |-> String(<<toStringHex(PrivateKeyOf(pk))>>)] :
      pk \in [head : {1, 2}, tail : {1, 2}]}

(* hexString.substring(0, 16): the hex digits of the first 8 bytes.        *)
substring16(str) ==
  LET bytes == BufferFromHex(split(str)[1])
  IN IF "head" \in DOMAIN bytes THEN toStringHex([head |-> bytes.head])
     ELSE toStringHex([headOf |-> bytes])

DidPrefix == <<[txt |-> <<"d", "i", "d">>], [txt |-> <<"tetracrypt">>]>>

generateDID_fromPrivateKey(keypair) ==
  [id |-> String(DidPrefix \o <<substring16(keypair.privateKey)>>),
   publicKey |-> keypair.publicKey,
   privateKey |-> keypair.privateKey]

(* storage.ts:294-302 and, with the same body, 451-459.                    *)
generateDID(keypair) ==
  [id |-> String(DidPrefix \o <<substring16(keypair.publicKey)>>),
   publicKey |-> keypair.publicKey,
   privateKey |-> keypair.privateKey]

CallGenerateDID(variant, keypair) ==
  /\ Len(identities) < MaxIdentities
  /\ identities' = Append(identities, generateDID(keypair) @@ [variant |-> variant])
  /\ UNCHANGED <<chanVars, cipher, storeVars, zk, form>>

(* generateZKProof(m) followed by verifyZKProof(m2, proof), or by          *)
(* verifyZKProof(m2) as MessageList calls it.                              *)
ZkInit ==
  \E m \in Plaintexts, m2 \in Plaintexts :
    zk = [pc |-> "input", m |-> m, m2 |-> m2]

Generate ==
  /\ zk.pc = "input"
  /\ zk' = [zk EXCEPT !.pc = "proved"] @@ [proof |-> generateZKProof(zk.m)]
  /\ UNCHANGED <<chanVars, cipher, storeVars, identities, form>>

Verify(withProof) ==
  /\ zk.pc = "proved"
  /\ LET given == IF withProof THEN zk.proof ELSE undefined
     IN zk' = [zk EXCEPT !.pc = "verified"]
                @@ [given |-> given, result |-> verifyZKProof(zk.m2, given)]
  /\ UNCHANGED <<chanVars, cipher, storeVars, identities, form>>

(* ============================ MessageInput ============================ *)
(* Code units typed into the textarea; String.prototype.trim strips the    *)
(* white space and line terminator units.                                  *)
InputUnits == {"a", " ", "LF"}
WhiteSpaceUnits == {" ", "LF", "BOM"}
InputTexts == {Text(u) : u \in SeqsUpTo(InputUnits, MaxInputLen)}

RECURSIVE trimStart(_)
trimStart(units) ==
  IF units # <<>> /\ Head(units) \in WhiteSpaceUnits
  THEN trimStart(Tail(units)) ELSE units

RECURSIVE trimEnd(_)
trimEnd(units) ==
  IF units # <<>> /\ units[Len(units)] \in WhiteSpaceUnits
  THEN trimEnd(SubSeq(units, 1, Len(units) - 1)) ELSE units

trim(str) == Text(trimEnd(trimStart(split(str)[1].txt)))

(* The textarea's onChange; the textarea is disabled while `sending`.      *)
onChange(text) ==
  /\ ~form.sending
  /\ form' = [form EXCEPT !.message = text, !.last = [op |-> "change"]]
  /\ UNCHANGED <<chanVars, cipher, storeVars, identities, zk>>

handleSubmit_noFinally(outcome) ==
  /\ IF trim(form.message) = Text(<<>>) \/ form.sending
     THEN form' = [form EXCEPT !.last = [op |-> "submit", sent |-> <<>>]]
     ELSE form' = [message |-> IF outcome = "returned" THEN Text(<<>>)
                               ELSE form.message,
                   sending |-> outcome # "returned",
                   last |-> [op |-> "submit",
                             sent |-> <<[content |-> trim(form.message),
                                         outcome |-> outcome]>>]]
  /\ UNCHANGED <<chanVars, cipher, storeVars, identities, zk>>

(* handleSubmit and the render after it; outcome is how the parent's       *)
(* onSendMessage ends.  `last` records the calls of onSendMessage the      *)
(* handler made.                                                           *)
handleSubmit(outcome) ==
  /\ IF trim(form.message) = Text(<<>>) \/ form.sending
     THEN form' = [form EXCEPT !.last = [op |-> "submit", sent |-> <<>>]]
     ELSE form' = [message |-> IF outcome = "returned" THEN Text(<<>>)
                               ELSE form.message,
                   sending |-> FALSE,
                   last |-> [op |-> "submit",
                             sent |-> <<[content |-> trim(form.message),
                                         outcome |-> outcome]>>]]
  /\ UNCHANGED <<chanVars, cipher, storeVars, identities, zk>>

(* ============================ specifications ========================== *)
(* The connection life cycle of MessageList.                               *)
Init == ChanInit /\ cipher = CipherIdle /\ LibIdle

NextConn ==
  \/ \E p \in Profiles \cup {null} : Mount(p)
  \/ \E p \in Profiles \cup {null} : Render(p)
  \/ Unmount
  \/ \E c \in Chains : onopen(c)
  \/ \E c \in Chains : onclose(c)
  \/ \E c \in Chains : TimerFire(c)

SpecConn == Init /\ [][NextConn]_vars

(* Timers fire, and the browser settles every connection attempt.          *)
SpecConnFair ==
  /\ SpecConn
  /\ \A c \in Chains : WF_vars(TimerFire(c))
  /\ \A c \in Chains : WF_vars(onopen(c) \/ onclose(c))

(* The life cycle with inbound frames.                                     *)
Next ==
  \/ NextConn
  \/ \E c \in Chains, f \in Frames : onmessage(c, f)
  \/ \E i \in 1..MaxFrames : HandlerResume(i)

Spec == Init /\ [][Next]_vars

(* Both paths into the message list, the socket and the Refresh button,    *)
(* over transports that stay up.                                           *)
NextFetch ==
  \/ \E p \in Profiles \cup {null} : Mount(p)
  \/ \E p \in Profiles \cup {null} : Render(p)
  \/ Unmount
  \/ \E c \in Chains : onopen(c)
  \/ \E c \in Chains, f \in Frames : onmessage(c, f)
  \/ \E i \in 1..MaxFrames : HandlerResume(i)
  \/ fetchMessages
  \/ \E r \in Responses : FetchResume(r)

SpecFetch == Init /\ [][NextFetch]_vars

(* encryptAES followed by decryptAES on drawn inputs.                      *)
InitCipher == ChanInit /\ CipherInit /\ LibIdle

NextCipher ==
  \/ \E iv \in Ivs : Encrypt(iv)
  \/ Decrypt

SpecCipher == InitCipher /\ [][NextCipher]_vars

(* The same, with envelopes that may be altered between the two calls.     *)
NextTamper ==
  \/ \E iv \in Ivs : Encrypt(iv)
  \/ \E i \in 1..3 : Tamper(i)
  \/ Decrypt

SpecTamper == InitCipher /\ [][NextTamper]_vars

(* The proof helpers on drawn messages.                                    *)
InitProof ==
  /\ ChanInit /\ cipher = CipherIdle
  /\ StoreIdle
  /\ identities = <<>>
  /\ ZkInit
  /\ form = FormIdle

NextProof ==
  \/ Generate
  \/ \E withProof \in BOOLEAN : Verify(withProof)

SpecProof == InitProof /\ [][NextProof]_vars

(* The functions of storage.ts called in any order, across page loads.     *)
InitStore ==
  /\ ChanInit /\ cipher = CipherIdle
  /\ StoreIdle
  /\ identities = <<>>
  /\ zk = ZkIdle
  /\ form = FormIdle

NextStore ==
  \/ \E p \in Profiles : saveUserProfile(p)
  \/ getUserProfile
  \/ \E c \in Contacts : saveContact(c)
  \/ getContacts
  \/ \E id \in 1..MaxStored, a \in PeerIds :
       \E b \in PeerIds \ {a} : addMessage(Message(id, a, b))
  \/ \E a \in PeerIds : \E b \in PeerIds \ {a} : getMessages(a, b)
  \/ \E c \in PeerIds : getMessagesForContact(c)
  \/ \E c \in PeerIds : markMessagesAsRead(c)
  \/ clearAllData
  \/ clearStorage
  \/ Reload

SpecStore == InitStore /\ [][NextStore]_vars

(* generateDID called repeatedly, in both variants.                        *)
NextDid == \E v \in {1, 2}, kp \in KemKeyPairs : CallGenerateDID(v, kp)

SpecDid == Init /\ [][NextDid]_vars

(* The MessageInput form: typing and submitting in any order.              *)
NextInput ==
  \/ \E text \in InputTexts : onChange(text)
  \/ \E outcome \in {"returned", "threw"} : handleSubmit(outcome)

SpecInput == Init /\ [][NextInput]_vars

(* ============================== properties ============================ *)
DeliveredCount(content) ==
  Cardinality({k \in 1..Len(messages) : messages[k].env.encrypted_content = content})

SameContent(i, j) ==
  /\ IsEnvelope(frames[i].frame)
  /\ IsEnvelope(frames[j].frame)
  /\ frames[i].frame.encrypted_content = frames[j].frame.encrypted_content

(* C1: once every frame carrying the raw bytes of a valid envelope has     *)
(* been processed on a channel that was not closed, the message list holds *)
(* exactly one message for those bytes, however often they arrived.        *)
DedupExactlyOnce ==
  \A i \in 1..Len(frames) :
    ( /\ ValidEnvelope(frames[i].frame, chainUser[frames[i].chain])
      /\ frames[i].span = "open"
      /\ \A j \in 1..Len(frames) : SameContent(i, j) => frames[j].pc \in Finished )
    => DeliveredCount(frames[i].frame.encrypted_content) = 1

(* C2: once the cleanup of an effect run has run, the channel it opened is *)
(* Disconnected, and stays so.                                             *)
ExplicitCloseTerminal ==
  \A c \in Chains : closed[c] => conn(c) = "Disconnected"

(* C3: no message in the list comes from a frame that arrived after the    *)
(* cleanup of its channel had run, or whose handler resumed after it.      *)
NoDeliveryAfterClose ==
  \A k \in 1..Len(messages) :
    messages[k].frame > 0 => frames[messages[k].frame].span = "open"

(* A handler that was suspended when its channel was closed has finished   *)
(* in a mounted component and left no message.                             *)
CutFrameDropped ==
  /\ phase = "mounted"
  /\ \E i \in 1..Len(frames) :
       /\ frames[i].span = "cut"
       /\ frames[i].pc \in Finished
       /\ \A k \in 1..Len(messages) : messages[k].frame # i

(* C4: a channel that the transport disconnected and that was not closed   *)
(* explicitly starts a new connection attempt, and every attempt is        *)
(* settled: Connected if the transport accepts it, Disconnected if not.    *)
AutoReconnect ==
  \A c \in Chains :
    /\ (conn(c) = "Disconnected" /\ sock[c] # "none" /\ ~closed[c])
         ~> (conn(c) = "Connecting" \/ closed[c])
    /\ (conn(c) = "Connecting") ~> (conn(c) \in {"Connected", "Disconnected"})

(* The only channel is Connected again after MaxCount transport closes and *)
(* no explicit close.                                                      *)
ReconnectedTwice ==
  /\ nChains = 1
  /\ ~closed[1]
  /\ reconnects >= 2
  /\ conn(1) = "Connected"

(* C5: every message in the list comes from an envelope whose proof and    *)
(* whose signature are valid.                                              *)
AcceptOnlyVerified ==
  \A k \in 1..Len(messages) :
    ProofValid(messages[k].env) /\ SignatureValid(messages[k].env)

(* An envelope without a valid signature and one with an invalid proof     *)
(* have been processed on the socket, a fetched one by the Refresh button, *)
(* and none of them is in the list.                                        *)
UnverifiedRejected ==
  /\ phase = "mounted"
  /\ fetch = [pc |-> "idle", last |-> "badProof"]
  /\ \E i, j \in 1..Len(frames) :
       /\ frames[i].pc \in Finished /\ IsEnvelope(frames[i].frame)
       /\ ~SignatureValid(frames[i].frame)
       /\ frames[j].pc \in Finished /\ IsEnvelope(frames[j].frame)
       /\ ~ProofValid(frames[j].frame)
  /\ messages = <<>>

(* C7 as stated: a channel's connection state changes only from            *)
(* Disconnected to Connecting, from Connecting to Connected and from       *)
(* Connected to Disconnected.                                              *)
StatedEdges ==
  {<<"Disconnected", "Connecting">>, <<"Connecting", "Connected">>,
   <<"Connected", "Disconnected">>}

StatedEdgesOnly ==
  [][\A c \in Chains : conn(c)' # conn(c) => <<conn(c), conn(c)'>> \in StatedEdges]_vars

(* C7 amended: the stated edges and Connecting to Disconnected, taken when *)
(* the socket closes before it opened.                                     *)
EdgesWithFailedConnect ==
  [][\A c \in Chains :
       conn(c)' # conn(c) =>
         <<conn(c), conn(c)'>> \in StatedEdges \cup {<<"Connecting", "Disconnected">>}]_vars

(* The latest socket of a channel closed before it had opened: it never    *)
(* sent its subscription.                                                  *)
ConnectFailed ==
  \E c \in Chains : sock[c] = "closed" /\ subSent[c] = 0

(* C8: a connection has sent no subscription while Connecting and exactly  *)
(* one from the moment it is Connected, and every inbound frame arrived on *)
(* a connection that had sent exactly one.                                 *)
HandshakeOnConnect ==
  /\ \A c \in Chains :
       /\ sock[c] = "connecting" => subSent[c] = 0
       /\ sock[c] = "open" => subSent[c] = 1
  /\ \A i \in 1..Len(frames) : frames[i].subs = 1

(* After a reconnect the only channel is Connected, has subscribed once on *)
(* the new connection, and frames have been handled.                       *)
HandshakeAfterReconnect ==
  /\ nChains = 1
  /\ reconnects >= 1
  /\ sock[1] = "open"
  /\ subSent[1] = 1
  /\ Len(frames) = MaxFrames
  /\ \A i \in 1..Len(frames) : frames[i].pc \in Finished

(* Outcomes of a handler that dropped its frame: JSON.parse threw, the     *)
(* proof was not verified, decryption threw.                               *)
Dropped == {"parseError", "badProof", "decryptError"}

(* C9: a step in which a frame is dropped because it is malformed, fails   *)
(* proof verification or fails decryption leaves the message list and the  *)
(* state of every socket as they were.                                     *)
BadFrameDropsOnlyItself ==
  [][\A i \in 1..Len(frames') :
       ( /\ i > Len(frames) \/ frames'[i].pc # frames[i].pc
         /\ frames'[i].pc \in Dropped )
       => messages' = messages /\ sock' = sock]_vars

(* On a connection that never closed, a frame that arrived after a         *)
(* malformed frame had been dropped was handled to the end.                *)
FrameAfterBadFrame ==
  /\ reconnects = 0
  /\ nChains = 1
  /\ sock[1] = "open"
  /\ Len(frames) = 2
  /\ frames[1].frame = Malformed
  /\ frames[1].pc = "parseError"
  /\ IsEnvelope(frames[2].frame)
  /\ frames[2].pc \in Finished

(* C10: a decryption of what encryptAES returned, with the key it was      *)
(* given, returns the plaintext it was given.                              *)
RoundTrip ==
  cipher.pc \in {"decrypted", "decryptThrew"} =>
    (cipher.pc = "decrypted" /\ cipher.out = cipher.P)

(* C11: decryptAES of an envelope in which one field was changed throws.   *)
TamperDetected ==
  (cipher.pc \in {"decrypted", "decryptThrew"} /\ "tampered" \in DOMAIN cipher)
    => cipher.pc = "decryptThrew"

(* C12: the third field of an envelope of encryptAES is an encapsulation   *)
(* of the AES key that sealed the payload: some KEM private key opens it   *)
(* to that key.                                                            *)
GenuineEncapsulation ==
  LET KemPublicKeys == {[kyber |-> iv] : iv \in Ivs}
      decapsulate(encapsulatedKey, privateKey) ==
        IF /\ DOMAIN encapsulatedKey = {"encap", "for"}
           /\ privateKey = PrivateKeyOf(encapsulatedKey.for)
        THEN encapsulatedKey.encap
        ELSE Thrown
      sealedWith == importKey(slice(BufferFromHex(split(cipher.key)[1]), KeySliceLen))
  IN (cipher.pc = "encrypted" /\ cipher.variant = 1) =>
       \E pub \in KemPublicKeys :
         decapsulate(BufferFromHex(split(cipher.env)[3]), PrivateKeyOf(pub)) = sealedWith

(* C14 as stated: verifyZKProof(m2, generateZKProof(m)) is true exactly    *)
(* when m2 is m, and verifyZKProof without a proof is false.               *)
ProofRoundTrip ==
  zk.pc = "verified" =>
    zk.result = (zk.given # undefined /\ zk.m2 = zk.m)

(* C14 amended: verifyZKProof(m2, generateZKProof(m)) is true exactly when *)
(* m2 and m have the same UTF-8 encoding, and verifyZKProof without a      *)
(* proof is false.                                                         *)
ProofRoundTripOnEncodings ==
  zk.pc = "verified" =>
    zk.result = ( /\ zk.given # undefined
                  /\ TextEncoder_encode(zk.m2) = TextEncoder_encode(zk.m) )

(* The proof of one message was rejected for another message.              *)
ProofOfOtherMessageRejected ==
  /\ zk.pc = "verified"
  /\ zk.given = generateZKProof(zk.m)
  /\ zk.m2 # zk.m
  /\ zk.result = FALSE

(* What the store holds: what the getters would read.                      *)
Stored == withMessages(storage, localStorage).messages
CurrentUser == withUser(storage, localStorage).currentUser
StoredContacts == withContacts(storage, localStorage).contacts

(* C15: a call of addMessage, getMessages, getMessagesForContact or        *)
(* markMessagesAsRead keeps every stored message at its position, with     *)
(* all its fields, except that a status may go from unread to read.        *)
AppendOnly ==
  [][call'.op \in {"addMessage", "getMessages", "getMessagesForContact",
                   "markMessagesAsRead"}
       => /\ Len(Stored') >= Len(Stored)
          /\ \A i \in 1..Len(Stored) :
               \/ Stored'[i] = Stored[i]
               \/ /\ Stored[i].status = "unread"
                  /\ Stored'[i] = [Stored[i] EXCEPT !.status = "read"]]_vars

(* C16: markMessagesAsRead(C) with current user U sets status to read on   *)
(* exactly the stored messages from C to U and changes no other message,   *)
(* no contact and not the profile; without a current user it changes       *)
(* nothing.                                                                *)
MarkReadEffect ==
  [][call'.op = "markMessagesAsRead"
       => /\ CurrentUser' = CurrentUser
          /\ StoredContacts' = StoredContacts
          /\ Stored' =
               [i \in 1..Len(Stored) |->
                  IF /\ CurrentUser # null
                     /\ Stored[i].sender = call'.contactId
                     /\ Stored[i].receiver = CurrentUser.userId
                  THEN [Stored[i] EXCEPT !.status = "read"]
                  ELSE Stored[i]]]_vars

(* C17: getMessages(a, b) returns the stored messages exchanged between a  *)
(* and b, in stored order, and the same for (b, a);                        *)
(* getMessagesForContact(c) returns those between the current user and c,  *)
(* and nothing when there is no current user.                              *)
QueryByPeer ==
  LET Between(a, b) ==
        SelectSeq(Stored, LAMBDA m : {m.sender, m.receiver} = {a, b})
  IN /\ call.op = "getMessages" =>
          /\ call.result = Between(call.userId1, call.userId2)
          /\ call.swapped = call.result
     /\ call.op = "getMessagesForContact" =>
          call.result = IF CurrentUser = null THEN <<>>
                        ELSE Between(CurrentUser.userId, call.contactId)

(* getMessages returned two messages, one in each direction, in the order  *)
(* they were added.                                                        *)
QueryBothDirections ==
  /\ call.op = "getMessages"
  /\ Len(call.result) = 2
  /\ call.result[1].sender = call.result[2].receiver
  /\ call.result[1].id < call.result[2].id

(* C18: getUserProfile returns the profile saved last, also after a page   *)
(* load, and null once the data was cleared; after a clear and until the   *)
(* next save the store is empty in memory and in localStorage and the      *)
(* getters return nothing.                                                 *)
IdentityLifecycle ==
  /\ CurrentUser = history.saved
  /\ call.op = "getUserProfile" => call.result = history.saved
  /\ history.cleared =>
       /\ storage = StorageEmpty
       /\ localStorage = LocalStorageEmpty
       /\ call.op = "getUserProfile" => call.result = null
       /\ call.op \in {"getContacts", "getMessages", "getMessagesForContact"}
            => call.result = <<>>

(* After a page load that emptied the memory, getUserProfile returned the  *)
(* saved profile.                                                          *)
IdentitySurvivesReload ==
  /\ call.op = "getUserProfile"
  /\ call.result \in Profiles
  /\ storage.messages = <<>>
  /\ localStorage.messages # NoItem
  /\ JSON_parse(localStorage.messages) # <<>>

(* C19: the id of every generated identity is "did:tetracrypt:" followed   *)
(* by the first 16 hex digits of its own public key, and identities with   *)
(* the same public key have the same id.                                   *)
DidFromPublicKey ==
  \A i \in 1..Len(identities) :
    /\ split(identities[i].id)[3] = substring16(identities[i].publicKey)
    /\ \A j \in 1..Len(identities) :
         identities[i].publicKey = identities[j].publicKey
           => identities[i].id = identities[j].id

(* Both variants of generateDID have returned an identity for the same     *)
(* public key, and a third call one for another public key with the same   *)
(* first 8 bytes.                                                          *)
SamePublicKeyTwice ==
  /\ Len(identities) = 3
  /\ identities[1].variant # identities[2].variant
  /\ identities[1].publicKey = identities[2].publicKey
  /\ identities[3].publicKey # identities[1].publicKey
  /\ identities[3].id = identities[1].id

(* C21: the handler of a frame that arrived on an open channel with a      *)
(* valid envelope the list did not hold, once it has finished, has         *)
(* appended the envelope's message to the list.                            *)
ValidEnvelopeDelivered ==
  \A i \in 1..Len(frames) :
    ( /\ ValidEnvelope(frames[i].frame, chainUser[frames[i].chain])
      /\ frames[i].span = "open"
      /\ frames[i].pc \in Finished \ {"duplicate"} )
    => /\ frames[i].pc = "delivered"
       /\ \E k \in 1..Len(messages) : messages[k].frame = i

(* The messages in persistent storage: the `messages` item of localStorage. *)
Persisted ==
  IF localStorage.messages = NoItem THEN <<>> ELSE JSON_parse(localStorage.messages)

(* C22: no step other than a clear removes a message from persistent       *)
(* storage, page loads included; addMessage leaves its message there, and  *)
(* getMessages returns every persisted message of its conversation.        *)
NoMessageLost ==
  [][/\ call'.op \notin {"clearAllData", "clearStorage"}
          => \A i \in 1..Len(Persisted) :
               \E j \in 1..Len(Persisted') : Persisted'[j].id = Persisted[i].id
     /\ call'.op = "addMessage"
          => \E j \in 1..Len(Persisted') : Persisted'[j] = call'.message
     /\ call'.op = "getMessages"
          => \A i \in 1..Len(Persisted) :
               {Persisted[i].sender, Persisted[i].receiver}
                   = {call'.userId1, call'.userId2}
                 => \E j \in 1..Len(call'.result) :
                      call'.result[j].id = Persisted[i].id]_vars

(* C23: a mounted MessageList has at most one socket that is connecting or *)
(* open and at most one pending reconnect timer.                           *)
AtMostOneLiveChannel ==
  phase = "mounted" =>
    /\ Cardinality({c \in Chains : sock[c] \in {"connecting", "open"}}) <= 1
    /\ Cardinality({c \in Chains : timer[c]}) <= 1

(* C24: a submit calls onSendMessage at most once, with the trimmed and    *)
(* non-empty text of the input and only when no send was in progress; it   *)
(* leaves the sending flag false, also when onSendMessage threw, and it    *)
(* clears the input only when onSendMessage returned.                      *)
SendGuard ==
  [][form'.last.op = "submit" =>
       LET sent == form'.last.sent
           units(k) == split(sent[k].content)[1].txt
           typed == split(form.message)[1].txt
       IN /\ Len(sent) <= 1
          /\ \A k \in 1..Len(sent) :
               /\ ~form.sending
               /\ units(k) # <<>>
               /\ Head(units(k)) \notin WhiteSpaceUnits
               /\ units(k)[Len(units(k))] \notin WhiteSpaceUnits
               /\ \E i \in 0..Len(typed) :
                    /\ i + Len(units(k)) <= Len(typed)
                    /\ SubSeq(typed, i + 1, i + Len(units(k))) = units(k)
                    /\ \A p \in 1..Len(typed) :
                         (p <= i \/ p > i + Len(units(k)))
                           => typed[p] \in WhiteSpaceUnits
          /\ ~form'.sending
          /\ form'.message # form.message
               => /\ form'.message = Text(<<>>)
                  /\ Len(sent) = 1
                  /\ sent[1].outcome = "returned"]_vars

(* onSendMessage threw on a text typed with white space around it: it got  *)
(* the trimmed text, the input kept what was typed and sending is false.   *)
SendFailedInputKept ==
  /\ form.last.op = "submit"
  /\ Len(form.last.sent) = 1
  /\ form.last.sent[1].outcome = "threw"
  /\ form.last.sent[1].content # form.message
  /\ form.message # Text(<<>>)
  /\ ~form.sending

(* C25: a step of a mounted MessageList whose `user` is and stays null     *)
(* creates no socket, schedules no reconnect timer and adds no message;    *)
(* a fetchMessages call made without a user ends with loading false and    *)
(* the message list as it was.                                             *)
NoIdentityNoChannel ==
  [][(phase' = "mounted" /\ user = null /\ user' = null) =>
       /\ \A c \in Chains : sock'[c] = "connecting" => sock[c] = "connecting"
       /\ \A c \in Chains : timer'[c] => timer[c]
       /\ messages' = messages
       /\ (fetch' # fetch /\ fetch'.pc = "idle" /\ fetch'.last = "noUser")
            => ~loading']_vars

====
